---- MODULE Spec2Model ----
(***************************************************************************)
(* easy_fx: a currency-exchange quoting service.                           *)
(*                                                                         *)
(* State: the Currency registry (active flags), the Rate table (one row    *)
(* per ordered pair), the Quote table, the wall clock, the refresh         *)
(* workers, the last HTTP response handed to a client, and the create      *)
(* request that has passed its form and not yet read its rate.             *)
(*                                                                         *)
(* Fixed-point values are integers: a Rate value or a Quote rate/result is *)
(* a count of 10^-6 units (the fields' decimal_places=6), a Quote amount   *)
(* is a count of 10^-2 units (decimal_places=2), a provider number is a    *)
(* count of 10^-7 units (one digit more than a Rate field keeps).          *)
(***************************************************************************)
EXTENDS Integers, Sequences, FiniteSets, TLC

VARIABLES now, active, rates, quotes, refresh, resp, issued, dbRounding,
          pending

vars ==
  <<now, active, rates, quotes, refresh, resp, issued, dbRounding, pending>>

(***************************************************************************)
(* Bounds of the model.                                                    *)
(***************************************************************************)
\* the clock stops advancing here
MaxTime == 4
\* Quote rows the model creates at most (retention is external)
MaxQuotes == 2
\* the Quote rows the issuance specification lets requests create
MaxIssued == 1
\* settings.QUOTE_VALIDITY, in clock ticks (configurable; the default is 60)
QUOTE_VALIDITY == 2
\* settings.EXCHANGE_RATES_REFRESH, in clock ticks (configurable)
EXCHANGE_RATES_REFRESH == 3

(***************************************************************************)
(* Currency registry.                                                      *)
(***************************************************************************)
\* Currency rows, in Meta.ordering = ['code'] order
CodeOrder == <<"EUR", "KES", "USD">>

Currencies == {CodeOrder[i] : i \in 1..Len(CodeOrder)}

\* a code no Currency row has
UnknownCode == "XXX"

\* str.upper() on the request strings the model sends
Upper(s) ==
  CASE s = "usd" -> "USD"
    [] s = "eur" -> "EUR"
    [] s = "kes" -> "KES"
    [] OTHER -> s

\* a lookup that would ignore the active flag
ActiveCurrencyAnyRow(code) == code \in Currencies

\* Currency.objects.get(code=code, active=True) finds a row
ActiveCurrency(code) == code \in Currencies /\ active[code]

\* Currency.objects.filter(active=True), as the ordered list the refresh loop walks
ActiveList == SelectSeq(CodeOrder, LAMBDA c : active[c])

(***************************************************************************)
(* Fixed-point arithmetic.                                                 *)
(***************************************************************************)
\* n / d rounded to an integer, ties to even (decimal's ROUND_HALF_EVEN); d > 0
RoundHalfEven(n, d) ==
  LET q == n \div d
      r == n % d
  IN  IF 2 * r < d THEN q
      ELSE IF 2 * r > d THEN q + 1
      ELSE IF q % 2 = 0 THEN q ELSE q + 1

\* n / d rounded to an integer, ties away from zero (a numeric column); d > 0
RoundHalfUp(n, d) ==
  LET q == n \div d
      r == n % d
  IN  IF 2 * r < d THEN q
      ELSE IF 2 * r > d THEN q + 1
      ELSE IF n >= 0 THEN q + 1 ELSE q

\* what a DecimalField(decimal_places=6) column keeps of n / d micro-units
DbRound(n, d) ==
  IF dbRounding = "half_even" THEN RoundHalfEven(n, d) ELSE RoundHalfUp(n, d)

(***************************************************************************)
(* Rate table.                                                             *)
(***************************************************************************)
\* The table holds, for each ordered pair, the rows whose (source, target) is
\* that pair, oldest first.
Pairs == Currencies \X Currencies

NoRates == [p \in Pairs |-> <<>>]

\* Rate.objects.get(source=s, target=t) finds a row
HasRate(s, t) == Len(rates[<<s, t>>]) = 1

\* the row Rate.objects.get(source=s, target=t) returns
GetRate(s, t) == rates[<<s, t>>][1]

\* the rows of the whole table
RateRows == UNION {{[pair |-> p, row |-> rates[p][i]] : i \in 1..Len(rates[p])} : p \in Pairs}

(***************************************************************************)
(* Quote requests and QuoteRequestForm.                                    *)
(***************************************************************************)
\* the amount strings the model posts: digits * 10^-places, or not a number
Amount(d, p) == [numeric |-> TRUE, digits |-> d, places |-> p]

NotANumber == [numeric |-> FALSE, digits |-> 0, places |-> 0]

Pow10(k) == CASE k = 0 -> 1 [] k = 1 -> 10 [] k = 2 -> 100 [] OTHER -> 1000

\* Decimal(amount) as a count of cents, for an amount of at most 2 places
AmountCents(a) == a.digits * Pow10(2 - a.places)

\* the number of decimal digits of n, for the integers of the model
Digits(n) ==
  LET m == IF n < 0 THEN -n ELSE n
  IN  IF m < 10 THEN 1 ELSE IF m < 100 THEN 2 ELSE IF m < 1000 THEN 3
      ELSE IF m < 10000 THEN 4 ELSE IF m < 100000 THEN 5
      ELSE IF m < 1000000 THEN 6 ELSE IF m < 10000000 THEN 7
      ELSE IF m < 100000000 THEN 8 ELSE IF m < 1000000000 THEN 9 ELSE 10

\* the digits of an amount before its decimal point (DecimalValidator's
\* whole_digits); a negative places counts trailing zeros: Amount(1, -15) is
\* "1000000000000000"
WholeDigits(a) ==
  IF Digits(a.digits) > a.places THEN Digits(a.digits) - a.places ELSE 0

\* forms.DecimalField(max_digits=20, decimal_places=2, min_value=0.01).clean:
\* a number, of at most 2 decimal places and 20 - 2 whole digits, and not
\* below the float 0.01, which is 0.01000000000000000020816..., so that
\* Decimal('0.01') itself is below it
AmountAccepted(a) ==
  /\ a.numeric
  /\ a.places <= 2
  /\ WholeDigits(a) <= 18
  /\ IF a.places < 0 THEN a.digits > 0 ELSE AmountCents(a) > 1

\* clean_source_currency / clean_target_currency: the Currency's code, or ""
\* when the field is missing or the code is unknown or inactive
CleanCurrency(raw) ==
  IF raw # "" /\ ActiveCurrency(Upper(raw)) THEN Upper(raw) ELSE ""

\* a clean() without the first check
SameCurrenciesAllowed(source, target) == FALSE

\* QuoteRequestForm.clean, first check: both codes cleaned and the same
SameCurrencies(source, target) ==
  source # "" /\ target # "" /\ source = target

\* a clean() that would fall back on the Rate row of the inverse pair
RateUnavailableBothWays(source, target) ==
  rates[<<source, target>>] = <<>> /\ rates[<<target, source>>] = <<>>

\* QuoteRequestForm.clean, second check: Rate.objects.get raises DoesNotExist
RateUnavailable(source, target) == rates[<<source, target>>] = <<>>

\* QuoteRequestForm.clean runs after the three fields, whatever their errors:
\* does it get as far as Rate.objects.get
CleanLooksUpRate(req) ==
  LET source == CleanCurrency(req.source)
      target == CleanCurrency(req.target)
  IN  source # "" /\ target # "" /\ ~SameCurrencies(source, target)

\* the keys of form.errors
FormErrors(req) ==
  LET source == CleanCurrency(req.source)
      target == CleanCurrency(req.target)
  IN  (IF source = "" THEN {"source_currency"} ELSE {})
      \cup (IF target = "" THEN {"target_currency"} ELSE {})
      \cup (IF AmountAccepted(req.amount) THEN {} ELSE {"amount"})
      \cup (IF SameCurrencies(source, target) THEN {"__all__"} ELSE {})
      \cup (IF CleanLooksUpRate(req) /\ RateUnavailable(source, target)
              THEN {"__all__"} ELSE {})

(***************************************************************************)
(* Quote rows.                                                             *)
(***************************************************************************)
QuoteIds == 1..MaxQuotes

\* a primary key no Quote row has (the all-zero UUID)
NoSuchId == 0

\* uuid.uuid4(): an identifier no row has yet
FreshId == Cardinality(DOMAIN quotes) + 1

\* how far the clock may move between two reads inside one save()
ClockDrift == {0, 1}

\* Quote.save on a new row: expiration_time from the clock read in save(),
\* time_created/time_updated stamped when the row is inserted (at `stamp`)
NewQuote(source, target, cents, rate, result, read, stamp) ==
  [source_currency |-> source, target_currency |-> target, amount |-> cents,
   rate |-> rate, result |-> result, time_created |-> stamp,
   time_updated |-> stamp, expiration_time |-> read + QUOTE_VALIDITY]

\* Quote.save on a row that has an expiration_time: only auto_now moves
SavedAgain(q, stamp) == [q EXCEPT !.time_updated = stamp]

\* an is_expired that would already hold at the deadline itself
IsExpiredAtDeadline(q) == now >= q.expiration_time

\* Quote.is_expired
IsExpired(q) == now > q.expiration_time

(***************************************************************************)
(* HTTP responses.                                                         *)
(***************************************************************************)
NoResponse ==
  [op |-> "none", status |-> 0, source |-> "", target |-> "", errors |-> {},
   rate_lookups |-> 0, quote_id |-> NoSuchId, rate |-> 0, result |-> 0,
   expiration_time |-> 0]

\* QuoteViewSet.create, 400: form.errors
BadRequest(req) ==
  [NoResponse EXCEPT !.op = "create", !.status = 400, !.source = req.source,
     !.target = req.target, !.errors = FormErrors(req),
     !.rate_lookups = IF CleanLooksUpRate(req) THEN 1 ELSE 0]

\* QuoteViewSet.create, 201: QuoteSerializer of the Quote instance in memory,
\* whose result is the exact product (cents * rate, in 10^-8 units) and is
\* quantized to 6 places by the serializer's DecimalField
Created(req, id, rate, product, read) ==
  [NoResponse EXCEPT !.op = "create", !.status = 201, !.source = req.source,
     !.target = req.target, !.rate_lookups = 2,
     !.quote_id = id, !.rate = rate, !.result = RoundHalfEven(product, 100),
     !.expiration_time = read + QUOTE_VALIDITY]

\* QuoteViewSet.create, 500: the view's own Rate.objects.get raises
\* (DoesNotExist or MultipleObjectsReturned), or Quote.objects.create raises
\* on a result the column cannot hold, and nothing catches it
ServerError(req) ==
  [NoResponse EXCEPT !.op = "create", !.status = 500, !.source = req.source,
     !.target = req.target, !.rate_lookups = 2]

\* a retrieve that would treat an expired row as a missing one
RetrieveStatusDeleting(pk) ==
  IF pk \notin DOMAIN quotes THEN 404
  ELSE IF IsExpired(quotes[pk]) THEN 404
  ELSE 200

\* QuoteViewSet.retrieve: 404 for no row, 410 for an expired row, else the row
RetrieveStatus(pk) ==
  IF pk \notin DOMAIN quotes THEN 404
  ELSE IF IsExpired(quotes[pk]) THEN 410
  ELSE 200

\* a retrieve that would read the pair's Rate row again
RetrievedRepriced(pk) ==
  LET status == RetrieveStatus(pk)
      mean == GetRate(quotes[pk].source_currency,
                      quotes[pk].target_currency).mean
  IN  IF status = 200
        THEN [NoResponse EXCEPT !.op = "retrieve", !.status = 200,
                !.quote_id = pk, !.rate = mean,
                !.result = RoundHalfEven(quotes[pk].amount * mean, 100),
                !.expiration_time = quotes[pk].expiration_time]
        ELSE [NoResponse EXCEPT !.op = "retrieve", !.status = status,
                !.quote_id = pk]

Retrieved(pk) ==
  LET status == RetrieveStatus(pk)
  IN  IF status = 200
        THEN [NoResponse EXCEPT !.op = "retrieve", !.status = 200,
                !.quote_id = pk, !.rate = quotes[pk].rate,
                !.result = quotes[pk].result,
                !.expiration_time = quotes[pk].expiration_time]
        ELSE [NoResponse EXCEPT !.op = "retrieve", !.status = status,
                !.quote_id = pk]

(***************************************************************************)
(* Quote operations.                                                       *)
(***************************************************************************)
\* the digits of amount * mean once kept to 6 places, as the database
\* adapter counts them against the column's max_digits
ResultDigits(a, mean) ==
  IF a.places < 0
    THEN IF mean = 0 THEN 1 ELSE Digits(a.digits * mean) - a.places
    ELSE Digits(DbRound(AmountCents(a) * mean, 100))

\* Quote.result = DecimalField(max_digits=20, decimal_places=6): a result of
\* more than 20 digits raises when the row is written (decimal's
\* InvalidOperation from the adapter's quantize, or the database's numeric
\* field overflow)
ResultFits(a, mean) == ResultDigits(a, mean) <= 20

\* no create request between its form and its rate read
NoRequest ==
  [pc |-> "idle", source |-> "", target |-> "",
   req |-> [source |-> "", target |-> "", amount |-> NotANumber]]

\* a create request whose form was valid: form.cleaned_data
Validated(req) ==
  [pc |-> "validated", source |-> CleanCurrency(req.source),
   target |-> CleanCurrency(req.target), req |-> req]

\* QuoteViewSet.create after a valid form: the view's own Rate.objects.get,
\* the product, Quote.objects.create, the 201; an exception of the read or of
\* the write leaves the view as a 500.  The Quote rows the model carries are
\* those of amounts written without trailing zeros (places >= 0), whose
\* results are within the model's integers
IssueQuote(req, source, target) ==
  IF ~HasRate(source, target)
    THEN /\ resp' = ServerError(req)
         /\ UNCHANGED <<now, active, rates, quotes, refresh, issued, dbRounding>>
    ELSE IF ~ResultFits(req.amount, GetRate(source, target).mean)
    THEN /\ resp' = ServerError(req)
         /\ UNCHANGED <<now, active, rates, quotes, refresh, issued, dbRounding>>
    ELSE LET cents == AmountCents(req.amount)
             mean == GetRate(source, target).mean
             product == cents * mean
             id == FreshId
         IN  /\ req.amount.places >= 0
             /\ id \in QuoteIds
             /\ \E d \in ClockDrift :
                  /\ now + d <= MaxTime
                  /\ now' = now + d
                  /\ quotes' = quotes @@ (id :> NewQuote(source, target, cents,
                                   mean, DbRound(product, 100), now, now + d))
                  /\ issued' = issued @@ (id :> quotes'[id])
             /\ resp' = Created(req, id, mean, product, now)
             /\ UNCHANGED <<active, rates, refresh, dbRounding>>

\* POST /fx/ with nothing running between the form and the rate read
CreateQuote(req) ==
  /\ IF FormErrors(req) # {}
       THEN /\ resp' = BadRequest(req)
            /\ UNCHANGED <<now, active, rates, quotes, refresh, issued,
                           dbRounding>>
       ELSE IssueQuote(req, CleanCurrency(req.source),
                       CleanCurrency(req.target))
  /\ UNCHANGED pending

\* POST /fx/, first half: QuoteRequestForm(data).is_valid(), the 400 or the
\* cleaned data
ValidateQuote(req) ==
  /\ pending.pc = "idle"
  /\ IF FormErrors(req) # {}
       THEN resp' = BadRequest(req) /\ pending' = pending
       ELSE resp' = resp /\ pending' = Validated(req)
  /\ UNCHANGED <<now, active, rates, quotes, refresh, issued, dbRounding>>

\* POST /fx/, second half, after whatever ran in between
IssueValidated ==
  /\ pending.pc = "validated"
  /\ IssueQuote(pending.req, pending.source, pending.target)
  /\ pending' = NoRequest

\* GET /fx/{pk}/
RetrieveQuote(pk) ==
  /\ resp' = Retrieved(pk)
  /\ UNCHANGED <<now, active, rates, quotes, refresh, issued, dbRounding, pending>>

\* Quote.save() on a stored row (the admin's change form saves it as loaded)
SaveQuote(id) ==
  /\ id \in DOMAIN quotes
  /\ quotes' = [quotes EXCEPT ![id] = SavedAgain(quotes[id], now)]
  /\ UNCHANGED <<now, active, rates, refresh, resp, issued, dbRounding, pending>>

(***************************************************************************)
(* The rate provider.                                                      *)
(***************************************************************************)
\* the numbers the provider quotes, in 10^-7 units
RateValues == {30, 1234567}

\* the codes the provider may name in "rates"
ProviderCodes == Currencies \cup {UnknownCode}

\* fetch_rates_for_currency returns None
Failure == [ok |-> FALSE, rates |-> <<>>]

\* a provider that fails (timeout, status other than 200, success=false, no
\* API key) or quotes every requested symbol at one value
PlainAnswers(symbols) ==
  {Failure}
  \cup {[ok |-> TRUE, rates |-> [c \in symbols |-> v]] : v \in RateValues}

\* a provider that fails, or quotes every requested symbol, or quotes one
\* code alone: one of the symbols, the base itself, a code without a
\* Currency row
AnyAnswers(symbols) ==
  {Failure}
  \cup {[ok |-> TRUE, rates |-> [c \in symbols |-> 30]]}
  \cup {[ok |-> TRUE, rates |-> (c :> 30)] : c \in ProviderCodes}

\* a 200 response whose JSON body is not an object (a list, a string, null):
\* data.get raises AttributeError inside fetch_rates_for_currency, which
\* catches only Timeout, RequestException and ValueError
MisshapenBody == [ok |-> TRUE, rates |-> <<>>, misshapen |-> "body"]

\* a 200 response {"success": true, "rates": [...]}: fetch returns it and
\* rates.items() raises AttributeError in update_rates_for_currency, outside
\* the loop's try
MisshapenRates == [ok |-> TRUE, rates |-> <<>>, misshapen |-> "rates"]

\* the answer makes the refresh code raise
Raises(data) == "misshapen" \in DOMAIN data

\* a provider that may also answer with an unexpectedly shaped body
WildAnswers(symbols) ==
  AnyAnswers(symbols) \cup {MisshapenBody, MisshapenRates}

\* what a provider of each kind may answer a request for the symbols
Answers(provider, symbols) ==
  IF provider = "plain" THEN PlainAnswers(symbols)
  ELSE IF provider = "any" THEN AnyAnswers(symbols)
  ELSE WildAnswers(symbols)

(***************************************************************************)
(* Rate refresh.                                                           *)
(***************************************************************************)
\* the row update_rates_for_currency writes for a provider number v:
\* mean = v, buying = v * 0.995, selling = v * 1.005, each kept to 6 places,
\* last_updated = auto_now
RateRow(v, stamp) ==
  [mean |-> DbRound(v, 10), buying |-> DbRound(v * 995, 10000),
   selling |-> DbRound(v * 1005, 10000), last_updated |-> stamp]

\* an upsert that would insert a row whatever the table holds
AlwaysCreate(rows, row) == Append(rows, row)

\* Rate.objects.update_or_create on the rows of one pair: create when there
\* is none, overwrite the one there is, MultipleObjectsReturned (caught by
\* the loop's except) when there are several
UpdateOrCreate(rows, row) ==
  IF Len(rows) <= 1 THEN <<row>> ELSE rows

\* an upsert that would also keep the row of the inverse pair in step
UpdatedRatesBothWays(table, base, data, stamp) ==
  [p \in Pairs |->
     IF p[1] = base /\ p[2] \in DOMAIN data.rates
       THEN UpdateOrCreate(table[p], RateRow(data.rates[p[2]], stamp))
     ELSE IF p[2] = base /\ p[1] \in DOMAIN data.rates
       THEN UpdateOrCreate(table[p], RateRow(data.rates[p[1]], stamp))
       ELSE table[p]]

\* update_rates_for_currency: every code of "rates" that is a Currency row
\* (active or not) is upserted under the base; the others are skipped
UpdatedRates(table, base, data, stamp) ==
  [p \in Pairs |->
     IF p[1] = base /\ p[2] \in DOMAIN data.rates
       THEN UpdateOrCreate(table[p], RateRow(data.rates[p[2]], stamp))
       ELSE table[p]]

\* log_data['rates_created'] and log_data['rates_updated'] of that call
RatesCreated(table, base, data) ==
  Cardinality({c \in DOMAIN data.rates \cap Currencies : Len(table[<<base, c>>]) = 0})

RatesUpdated(table, base, data) ==
  Cardinality({c \in DOMAIN data.rates \cap Currencies : Len(table[<<base, c>>]) = 1})

\* a guard that would wait until the interval is exceeded
ShouldRefreshRatesLate ==
  \/ RateRows = {}
  \/ \E r \in RateRows :
       /\ \A o \in RateRows : o.row.last_updated <= r.row.last_updated
       /\ now - r.row.last_updated > EXCHANGE_RATES_REFRESH

\* should_refresh_rates: no row, or the newest last_updated is at least the
\* interval old
ShouldRefreshRates ==
  \/ RateRows = {}
  \/ \E r \in RateRows :
       /\ \A o \in RateRows : o.row.last_updated <= r.row.last_updated
       /\ now - r.row.last_updated >= EXCHANGE_RATES_REFRESH

\* the workers that call update_all_exchange_rates: the Celery task and the
\* management command
Workers == {"task", "command"}

\* a worker outside update_all_exchange_rates; inside it, the bases still to
\* do, the codes listed, the counts the last update call logged, the calls
\* of fetch_rates_for_currency made so far; once it is out again, how the
\* invocation ended and how many calls of fetch_rates_for_currency it made
\* (what the tests read as mock_fetch.call_count)
Idle ==
  [pc |-> "idle", todo |-> <<>>, codes |-> {}, created |-> 0, updated |-> 0,
   calls |-> <<>>, call_count |-> 0, status |-> ""]

\* the worker after an invocation that ended with the given status
Returned(status) == [Idle EXCEPT !.status = status]

\* the worker after an invocation that ended inside the loop, at its end or
\* by an exception, having made the given calls
Finished(status, calls) ==
  [Idle EXCEPT !.status = status, !.call_count = Len(calls)]

\* one call fetch_rates_for_currency(base, symbols) and what came of it:
\* "data" (a dict returned) or "none" (None returned)
Call(base, symbols, got) == [base |-> base, symbols |-> symbols, got |-> got]

\* an update_all_exchange_rates without the staleness guard
RefreshStartUnguarded(w) ==
  /\ refresh[w].pc = "idle"
  /\ IF ActiveList = <<>>
       THEN refresh' = [refresh EXCEPT ![w] = Returned("no_active")]
       ELSE refresh' = [refresh EXCEPT ![w] =
              [pc |-> "loop", todo |-> ActiveList,
               codes |-> {ActiveList[i] : i \in 1..Len(ActiveList)},
               created |-> 0, updated |-> 0, calls |-> <<>>,
               call_count |-> 0, status |-> ""]]
  /\ UNCHANGED <<now, active, rates, quotes, resp, issued, dbRounding, pending>>

\* update_all_exchange_rates up to the loop: return when no refresh is due or
\* no currency is active, else list the active currencies
RefreshStart(w) ==
  /\ refresh[w].pc = "idle"
  /\ IF ~ShouldRefreshRates
       THEN refresh' = [refresh EXCEPT ![w] = Returned("skipped")]
       ELSE IF ActiveList = <<>>
       THEN refresh' = [refresh EXCEPT ![w] = Returned("no_active")]
       ELSE refresh' = [refresh EXCEPT ![w] =
              [pc |-> "loop", todo |-> ActiveList,
               codes |-> {ActiveList[i] : i \in 1..Len(ActiveList)},
               created |-> 0, updated |-> 0, calls |-> <<>>,
               call_count |-> 0, status |-> ""]]
  /\ UNCHANGED <<now, active, rates, quotes, resp, issued, dbRounding, pending>>

\* a loop that would give up at the first fetch that returns None
RefreshBaseAborting(w, provider) ==
  /\ refresh[w].pc = "loop"
  /\ LET base == Head(refresh[w].todo)
         target_codes == refresh[w].codes \ {base}
         rest == Tail(refresh[w].todo)
         called(got) == Append(refresh[w].calls, Call(base, target_codes, got))
         after(calls, c, u) ==
           IF rest = <<>>
             THEN Finished("completed", calls)
             ELSE [refresh[w] EXCEPT !.todo = rest, !.created = c,
                     !.updated = u, !.calls = calls,
                     !.call_count = Len(calls)]
     IN  \E data \in Answers(provider, target_codes) :
           IF data.ok /\ ~Raises(data)
             THEN /\ rates' = UpdatedRates(rates, base, data, now)
                  /\ refresh' = [refresh EXCEPT ![w] =
                       after(called("data"),
                             RatesCreated(rates, base, data),
                             RatesUpdated(rates, base, data))]
             ELSE /\ rates' = rates
                  /\ refresh' = [refresh EXCEPT ![w] = Returned("failed")]
  /\ UNCHANGED <<now, active, quotes, resp, issued, dbRounding, pending>>

\* one turn of the loop: the next base, its targets (the listed currencies but
\* the base), one provider call when there are targets, the upsert of an
\* answer, against a provider of the given kind; an exception ends the
\* invocation, the end of the list completes it
RefreshBase(w, provider) ==
  /\ refresh[w].pc = "loop"
  /\ LET base == Head(refresh[w].todo)
         target_codes == refresh[w].codes \ {base}
         rest == Tail(refresh[w].todo)
         called(got) == Append(refresh[w].calls, Call(base, target_codes, got))
         after(calls, c, u) ==
           IF rest = <<>>
             THEN Finished("completed", calls)
             ELSE [refresh[w] EXCEPT !.todo = rest, !.created = c,
                     !.updated = u, !.calls = calls,
                     !.call_count = Len(calls)]
     IN  IF target_codes = {}
           THEN /\ rates' = rates
                /\ refresh' = [refresh EXCEPT ![w] =
                                 after(refresh[w].calls, 0, 0)]
           ELSE \E data \in Answers(provider, target_codes) :
                  IF Raises(data)
                    THEN /\ rates' = rates
                         /\ refresh' = [refresh EXCEPT ![w] =
                                          Finished("raised", called("raised"))]
                  ELSE IF data.ok
                    THEN /\ rates' = UpdatedRates(rates, base, data, now)
                         /\ refresh' = [refresh EXCEPT ![w] =
                              after(called("data"),
                                    RatesCreated(rates, base, data),
                                    RatesUpdated(rates, base, data))]
                    ELSE /\ rates' = rates
                         /\ refresh' = [refresh EXCEPT ![w] =
                              after(called("none"), 0, 0)]
  /\ UNCHANGED <<now, active, quotes, resp, issued, dbRounding, pending>>

(***************************************************************************)
(* The environment.                                                        *)
(***************************************************************************)
\* the wall clock advances
Tick ==
  /\ now < MaxTime
  /\ now' = now + 1
  /\ UNCHANGED <<active, rates, quotes, refresh, resp, issued, dbRounding, pending>>

\* CurrencyAdmin: an operator switches a Currency's active flag
SetActive(c, b) ==
  /\ active[c] # b
  /\ active' = [active EXCEPT ![c] = b]
  /\ UNCHANGED <<now, rates, quotes, refresh, resp, issued, dbRounding, pending>>

\* RateAdmin: an operator deletes a Rate row (ModelAdmin's delete view and
\* its delete_selected action)
DeleteRate(p) ==
  /\ rates[p] # <<>>
  /\ rates' = [rates EXCEPT ![p] = <<>>]
  /\ UNCHANGED <<now, active, quotes, refresh, resp, issued, dbRounding,
                 pending>>

(***************************************************************************)
(* Requests the model sends.                                               *)
(***************************************************************************)
Request(s, t, a) == [source |-> s, target |-> t, amount |-> a]

\* amounts the form refuses: 0.01, three decimal places, negative, no number
RefusedAmounts == {Amount(1, 2), Amount(1005, 3), Amount(-1, 0), NotANumber}

\* amounts the form accepts: 0.02 and 1.5
AcceptedAmounts == {Amount(2, 2), Amount(15, 1)}

\* requests that probe the form: lower case, an inactive or unknown or
\* missing code, the same code twice, a pair without a Rate row, a refused amount
IssueRequests ==
  {Request("usd", "EUR", Amount(15, 1)), Request("usd", "EUR", Amount(-1, 0)),
   Request("EUR", "KES", Amount(15, 1)), Request("KES", "eur", Amount(2, 2)),
   Request("USD", "usd", Amount(15, 1)), Request("XXX", "EUR", Amount(15, 1)),
   Request("EUR", "XXX", Amount(15, 1)), Request("", "EUR", Amount(15, 1)),
   Request("KES", "KES", NotANumber)}

\* requests that probe the arithmetic: one pair, every amount
ValueRequests ==
  {Request("usd", "EUR", a) : a \in AcceptedAmounts \cup RefusedAmounts}

\* the requests of a client that follows one quote through its life
LifeRequests == {Request("usd", "EUR", Amount(15, 1))}

\* requests the form accepts once the pair has a rate: 1.5 and
\* 1000000000000000 (16 whole digits, the form allows 18)
CreateRequests ==
  {Request("usd", "EUR", Amount(15, 1)), Request("usd", "EUR", Amount(1, -15))}

(***************************************************************************)
(* Specifications.                                                         *)
(***************************************************************************)
\* the service as deployed: every currency active, no Rate row, no Quote
\* row, on a database that rounds as Django's format_number does
Init ==
  /\ now = 0
  /\ active = [c \in Currencies |-> TRUE]
  /\ rates = NoRates
  /\ quotes = <<>>
  /\ refresh = [w \in Workers |-> Idle]
  /\ resp = NoResponse
  /\ issued = <<>>
  /\ dbRounding = "half_even"
  /\ pending = NoRequest

\* Quote issuance: the requests of IssueRequests against the tables that a
\* refresh and the admin leave
NextIssue ==
  \/ \E b \in BOOLEAN : SetActive("KES", b)
  \/ RefreshStart("task")
  \/ RefreshBase("task", "any")
  \/ \E req \in IssueRequests :
       CreateQuote(req) /\ Cardinality(DOMAIN quotes') <= MaxIssued

SpecIssue == Init /\ [][NextIssue]_vars

\* the same service on either kind of database
InitValue ==
  /\ now = 0
  /\ active = [c \in Currencies |-> TRUE]
  /\ rates = NoRates
  /\ quotes = <<>>
  /\ refresh = [w \in Workers |-> Idle]
  /\ resp = NoResponse
  /\ issued = <<>>
  /\ dbRounding \in {"half_even", "half_up"}
  /\ pending = NoRequest

\* Quote arithmetic: every amount against the rates a provider quotes
NextValue ==
  \/ RefreshStart("task")
  \/ RefreshBase("task", "plain")
  \/ \E req \in ValueRequests : CreateQuote(req)

SpecValue == InitValue /\ [][NextValue]_vars

\* the registry of QuoteRequestFormTest.setUp: KES is inactive
InitLife ==
  /\ now = 0
  /\ active = [c \in Currencies |-> c # "KES"]
  /\ rates = NoRates
  /\ quotes = <<>>
  /\ refresh = [w \in Workers |-> Idle]
  /\ resp = NoResponse
  /\ issued = <<>>
  /\ dbRounding = "half_even"
  /\ pending = NoRequest

\* the life of a quote: issued and looked up while the clock advances and
\* refreshes overwrite the rates
NextLife ==
  \/ Tick
  \/ RefreshStart("task")
  \/ RefreshBase("task", "plain")
  \/ \E req \in LifeRequests : CreateQuote(req)
  \/ \E pk \in QuoteIds \cup {NoSuchId} : RetrieveQuote(pk)

SpecLife == InitLife /\ [][NextLife]_vars

\* the stored rows: quotes issued, looked up and saved again from the admin
\* while the clock advances
NextSave ==
  \/ Tick
  \/ RefreshStart("task")
  \/ RefreshBase("task", "plain")
  \/ \E req \in LifeRequests : CreateQuote(req)
  \/ \E pk \in QuoteIds : RetrieveQuote(pk)
  \/ \E id \in QuoteIds : SaveQuote(id)

SpecSave == InitLife /\ [][NextSave]_vars

\* the refresh on its own: the clock, the admin and the provider
NextRefresh ==
  \/ Tick
  \/ \E b \in BOOLEAN : SetActive("KES", b)
  \/ RefreshStart("task")
  \/ RefreshBase("task", "plain")

SpecRefresh == Init /\ [][NextRefresh]_vars

\* overlapping triggers: the Celery task and the management command run
\* update_all_exchange_rates side by side while a client asks for quotes
NextOverlap ==
  \/ Tick
  \/ \E w \in Workers : RefreshStart(w)
  \/ \E w \in Workers : RefreshBase(w, "plain")
  \/ \E req \in LifeRequests :
       CreateQuote(req) /\ Cardinality(DOMAIN quotes') <= MaxIssued

SpecOverlap == InitLife /\ [][NextOverlap]_vars

\* a create request with the refresh and the admin running between its form
\* and its rate read
NextCreate ==
  \/ Tick
  \/ RefreshStart("task")
  \/ RefreshBase("task", "plain")
  \/ \E p \in Pairs : DeleteRate(p)
  \/ \E req \in CreateRequests : ValidateQuote(req)
  \/ IssueValidated

SpecCreate == InitLife /\ [][NextCreate]_vars

\* the refresh against a provider that may answer anything, while the admin
\* switches currencies on and off
NextProvider ==
  \/ Tick
  \/ \E c \in Currencies : \E b \in BOOLEAN : SetActive(c, b)
  \/ RefreshStart("task")
  \/ RefreshBase("task", "wild")

SpecProvider == Init /\ [][NextProvider]_vars

(***************************************************************************)
(* Claims.                                                                 *)
(***************************************************************************)
\* the amounts the specification calls valid: positive, at most 2 places
PositiveTwoPlaces(a) == a.numeric /\ a.places <= 2 /\ a.digits > 0

\* an ordered pair of active currencies with a Rate row, and a valid amount
Quotable(req) ==
  LET s == Upper(req.source)
      t == Upper(req.target)
  IN  /\ s \in Currencies /\ t \in Currencies /\ s # t
      /\ active[s] /\ active[t]
      /\ rates[<<s, t>>] # <<>>
      /\ PositiveTwoPlaces(req.amount)

\* C1 (as claimed): for every ordered pair of active currencies with a Rate
\* row and every valid amount, create_quote answers 201 and persists a Quote
\* whose rate is the row's mean at call time and whose result, as stored and
\* as returned, is amount * rate exactly (cents * rate = 100 * result).
C1_ExactQuote ==
  [][\A req \in ValueRequests :
       (Quotable(req) /\ CreateQuote(req)) =>
         LET mean == GetRate(Upper(req.source), Upper(req.target)).mean
             product == AmountCents(req.amount) * mean
             id == resp'.quote_id
         IN  /\ resp'.status = 201
             /\ id \in DOMAIN quotes' /\ id \notin DOMAIN quotes
             /\ quotes'[id].rate = mean /\ resp'.rate = mean
             /\ 100 * quotes'[id].result = product
             /\ 100 * resp'.result = product]_vars

\* C1, the part that holds: a request the form accepts is answered 201 with
\* a new Quote whose rate is the row's mean at call time and whose result is
\* the product rounded to 6 places: exact when the product has no more than
\* 6 places, and otherwise within half a unit of the sixth place.
QuoteRateAndRoundedResult ==
  [][\A req \in ValueRequests :
       (Quotable(req) /\ AmountAccepted(req.amount) /\ CreateQuote(req)) =>
         LET mean == GetRate(Upper(req.source), Upper(req.target)).mean
             product == AmountCents(req.amount) * mean
             id == resp'.quote_id
             rounded(r) == /\ 100 * r - product <= 50
                           /\ product - 100 * r <= 50
                           /\ (product % 100 = 0 => 100 * r = product)
         IN  /\ resp'.status = 201
             /\ id \in DOMAIN quotes' /\ id \notin DOMAIN quotes
             /\ quotes'[id].rate = mean /\ resp'.rate = mean
             /\ quotes'[id].amount = AmountCents(req.amount)
             /\ rounded(quotes'[id].result)
             /\ rounded(resp'.result)]_vars

\* a Quote whose stored result is not the exact product
RoundedQuoteStored ==
  \E id \in DOMAIN quotes :
    100 * quotes[id].result # quotes[id].amount * quotes[id].rate

\* C2: a Quote's rate and result are locked at creation: whatever refreshes
\* overwrite the Rate row of its pair, whatever saves and lookups follow, the
\* stored row and every successful lookup carry the rate and result the row
\* had when it was created.
RateAndResultLocked ==
  \A id \in DOMAIN issued :
    /\ id \in DOMAIN quotes
    /\ quotes[id].rate = issued[id].rate
    /\ quotes[id].result = issued[id].result
    /\ (resp.op = "retrieve" /\ resp.status = 200 /\ resp.quote_id = id) =>
         (resp.rate = issued[id].rate /\ resp.result = issued[id].result)

\* a Quote looked up successfully after a refresh has given the Rate row of
\* its pair another mean
LookedUpAfterRateChanged ==
  \E id \in DOMAIN issued :
    LET q == quotes[id]
    IN  /\ HasRate(q.source_currency, q.target_currency)
        /\ GetRate(q.source_currency, q.target_currency).mean # q.rate
        /\ GetRate(q.source_currency, q.target_currency).last_updated
             > q.time_created
        /\ resp.op = "retrieve" /\ resp.status = 200 /\ resp.quote_id = id

\* C3 (as claimed): for every Quote in every reachable state, whatever saves
\* and lookups followed its creation, expiration_time equals time_created
\* plus the validity window.
ExpirationIsCreationPlusValidity ==
  \A id \in DOMAIN quotes :
    quotes[id].expiration_time = quotes[id].time_created + QUOTE_VALIDITY

\* C3, the part that holds: expiration_time is set at the first save and no
\* later step (save, lookup, refresh, clock) changes it.
ExpirationSetOnce ==
  [][\A id \in DOMAIN quotes :
       /\ id \in DOMAIN quotes'
       /\ quotes'[id].expiration_time = quotes[id].expiration_time]_vars

\* C4: once create_quote has returned a quote id, get_quote on that id never
\* answers NotFound, whatever refreshes, creations, saves, lookups and clock
\* advances happen in between: the row stays and expiry is not deletion.
IssuedNeverNotFound ==
  /\ DOMAIN issued \subseteq DOMAIN quotes
  /\ \A id \in DOMAIN issued : RetrieveStatus(id) # 404
  /\ (resp.op = "retrieve" /\ resp.quote_id \in DOMAIN issued) =>
       resp.status \in {200, 410}

\* an issued id looked up after it expired, another quote was created and a
\* refresh overwrote the rates
ExpiredLookupAfterEverything ==
  /\ resp.op = "retrieve" /\ resp.status = 410
  /\ resp.quote_id \in DOMAIN issued
  /\ Cardinality(DOMAIN quotes) = 2
  /\ \E p \in Pairs :
       /\ HasRate(p[1], p[2])
       /\ GetRate(p[1], p[2]).last_updated > quotes[resp.quote_id].time_created

\* C5: for a known id, get_quote answers Expired (410) exactly when
\* now > expiration_time and the quote (200) otherwise; a lookup at the
\* instant of creation or before the validity window has elapsed since
\* creation succeeds, a lookup after it has elapsed answers Expired.
ExpiredExactlyAfterExpiration ==
  [][\A pk \in QuoteIds :
       (pk \in DOMAIN quotes /\ RetrieveQuote(pk)) =>
         LET q == quotes[pk]
         IN  /\ resp'.quote_id = pk
             /\ resp'.status \in {200, 410}
             /\ resp'.status = 410 <=> now > q.expiration_time
             /\ now <= q.time_created + QUOTE_VALIDITY - 1 => resp'.status = 200
             /\ now >= q.time_created + QUOTE_VALIDITY + 1 => resp'.status = 410
             /\ resp'.status = 200 =>
                  /\ resp'.rate = q.rate /\ resp'.result = q.result
                  /\ resp'.expiration_time = q.expiration_time]_vars

\* a lookup one tick after the validity window elapsed, answered Expired
ExpiredOneTickLate ==
  /\ resp.op = "retrieve" /\ resp.status = 410
  /\ resp.quote_id \in DOMAIN quotes
  /\ now = quotes[resp.quote_id].expiration_time + 1
  /\ now = quotes[resp.quote_id].time_created + QUOTE_VALIDITY + 1

\* C6: create_quote with source code equal to target code always fails
\* validation (400) and creates no Quote, in every store state, also when a
\* Rate row with source = target exists.
SameCurrencyAlwaysRefused ==
  [][\A req \in IssueRequests :
       (/\ Upper(req.source) = Upper(req.target)
        /\ resp'.source = req.source /\ resp'.target = req.target
        /\ CreateQuote(req)) =>
         /\ resp'.status = 400
         /\ resp'.errors # {}
         /\ quotes' = quotes]_vars

\* USD -> USD refused while the table holds a Rate row USD -> USD
SameCurrencyRefusedDespiteRate ==
  /\ HasRate("USD", "USD")
  /\ resp.op = "create" /\ resp.status = 400
  /\ resp.source = "USD" /\ resp.target = "usd"
  /\ resp.errors = {"__all__"}
  /\ quotes = <<>>

\* C7: create_quote whose source or target code is unknown or names an
\* inactive currency always fails validation (400, with an error on that
\* field) and creates no Quote, also when a Rate row exists for the pair.
UnknownOrInactiveAlwaysRefused ==
  [][\A req \in IssueRequests :
       LET s == Upper(req.source)
           t == Upper(req.target)
           bad(c) == c \notin Currencies \/ ~active[c]
       IN  (/\ bad(s) \/ bad(t)
            /\ resp'.source = req.source /\ resp'.target = req.target
            /\ CreateQuote(req)) =>
             /\ resp'.status = 400
             /\ bad(s) => "source_currency" \in resp'.errors
             /\ bad(t) => "target_currency" \in resp'.errors
             /\ quotes' = quotes]_vars

\* KES -> EUR refused for the inactive KES although its Rate row is stored
InactiveRefusedDespiteRate ==
  /\ ~active["KES"] /\ active["EUR"]
  /\ HasRate("KES", "EUR")
  /\ resp.op = "create" /\ resp.status = 400
  /\ resp.source = "KES" /\ resp.target = "eur"
  /\ resp.errors = {"source_currency"}

\* C8: create_quote(A,B,amount) fails validation (400) and creates no Quote
\* whenever no Rate row exists for the ordered pair (A,B), also when rows
\* for (B,A) or for (A,C) and (C,B) exist.
NoRateNoQuote ==
  [][\A req \in IssueRequests :
       LET s == Upper(req.source)
           t == Upper(req.target)
       IN  (/\ s \in Currencies /\ t \in Currencies
            /\ rates[<<s, t>>] = <<>>
            /\ resp'.source = req.source /\ resp'.target = req.target
            /\ CreateQuote(req)) =>
             /\ resp'.status = 400
             /\ (active[s] /\ active[t]) => "__all__" \in resp'.errors
             /\ quotes' = quotes]_vars

\* EUR -> KES refused for want of its row, with the inverse row KES -> EUR
\* and the rows EUR -> USD and USD -> KES stored
NoFallbackOnOtherRows ==
  /\ active["EUR"] /\ active["KES"]
  /\ rates[<<"EUR", "KES">>] = <<>>
  /\ HasRate("KES", "EUR") /\ HasRate("EUR", "USD") /\ HasRate("USD", "KES")
  /\ resp.op = "create" /\ resp.status = 400
  /\ resp.source = "EUR" /\ resp.target = "KES"
  /\ resp.errors = {"__all__"}

\* C9 (as claimed): a request is refused without any Rate lookup unless the
\* source code, the target code and the amount have all passed validation.
NoLookupBeforeValidation ==
  (resp.op = "create" /\ resp.rate_lookups > 0) =>
    resp.errors \cap {"source_currency", "target_currency", "amount"} = {}

\* C10: applying one provider answer for one base twice leaves exactly one
\* Rate row per pair, holding the second write's values (mean, buying and
\* selling as one application gives them, last_updated of the second), the
\* second application creates nothing and overwrites each row it names, and
\* the other pairs keep their rows; no pair ever has two rows.
UpsertIdempotent ==
  /\ \A p \in Pairs : Len(rates[p]) <= 1
  /\ \A base \in Currencies :
       \A data \in AnyAnswers(Currencies \ {base})
                   \cup PlainAnswers(Currencies \ {base}) :
         data.ok =>
           LET once == UpdatedRates(rates, base, data, now)
               twice == UpdatedRates(once, base, data, now + 1)
               written == {c \in DOMAIN data.rates \cap Currencies : TRUE}
           IN  /\ \A p \in Pairs :
                    IF p[1] = base /\ p[2] \in written
                      THEN /\ Len(once[p]) = 1 /\ Len(twice[p]) = 1
                           /\ twice[p][1] = RateRow(data.rates[p[2]], now + 1)
                           /\ twice[p][1].mean = once[p][1].mean
                           /\ twice[p][1].buying = once[p][1].buying
                           /\ twice[p][1].selling = once[p][1].selling
                      ELSE twice[p] = rates[p] /\ once[p] = rates[p]
               /\ RatesCreated(once, base, data) = 0
               /\ RatesUpdated(once, base, data) = Cardinality(written)

\* a second run has overwritten, not created, the rows of its first base
SecondRunOverwrote ==
  /\ refresh["task"].pc = "loop"
  /\ refresh["task"].created = 0
  /\ refresh["task"].updated >= 1
  /\ \E p \in Pairs :
       /\ Len(rates[p]) = 1 /\ rates[p][1].last_updated = now
       /\ now >= EXCHANGE_RATES_REFRESH

\* C11: in every reachable state there is at most one Rate row per ordered
\* pair, whatever refresh invocations and quote requests interleave; (A,B)
\* and (B,A) are rows of their own: a step that creates or changes one
\* leaves the other as it was, and a quote request writes no Rate row.
OneRowPerOrderedPair ==
  [][/\ \A p \in Pairs : Len(rates[p]) <= 1 /\ Len(rates'[p]) <= 1
     /\ \A a \in Currencies : \A b \in Currencies \ {a} :
          rates'[<<a, b>>] # rates[<<a, b>>] =>
            rates'[<<b, a>>] = rates[<<b, a>>]
     /\ resp' # resp => rates' = rates]_vars

\* both workers inside the loop, the rows USD -> EUR and EUR -> USD stored
\* with different values, and a quote issued
InverseRowsApart ==
  /\ \A w \in Workers : refresh[w].pc = "loop"
  /\ HasRate("USD", "EUR") /\ HasRate("EUR", "USD")
  /\ GetRate("USD", "EUR").mean # GetRate("EUR", "USD").mean
  /\ quotes # <<>>

\* the last_updated stamps of the stored Rate rows, and the newest of them
Stamps == {r.row.last_updated : r \in RateRows}

Latest == CHOOSE t \in Stamps : \A u \in Stamps : u <= t

\* C12: should_refresh_rates depends on the clock, the newest last_updated
\* and the interval alone: it is true when no Rate row exists, false right
\* after a refresh has written a row (the newest stamp is the present), and
\* true exactly when the interval has elapsed since the newest stamp.
ShouldRefreshByLatestStamp ==
  /\ Stamps = {} => ShouldRefreshRates
  /\ Stamps # {} =>
       /\ ShouldRefreshRates <=> now - Latest >= EXCHANGE_RATES_REFRESH
       /\ Latest = now => ~ShouldRefreshRates

\* rows whose newest stamp is exactly one interval old, after an invocation
\* that found them fresh: the guard is true again
DueAgainAfterInterval ==
  /\ Stamps # {}
  /\ now - Latest = EXCHANGE_RATES_REFRESH
  /\ \E r \in RateRows : r.row.last_updated < Latest
  /\ refresh["task"].status = "skipped"
  /\ ShouldRefreshRates

\* C13: when the newest Rate row is younger than the refresh interval,
\* update_all_exchange_rates is a no-op: it returns "skipped" without
\* entering the loop, so without a provider call, and leaves every Rate row
\* (values and last_updated), every Currency and every Quote as it was.
NoOpWhenFresh ==
  [][\A w \in Workers :
       (/\ refresh[w].pc = "idle"
        /\ Stamps # {}
        /\ now - Latest < EXCHANGE_RATES_REFRESH
        /\ RefreshStart(w)) =>
         /\ rates' = rates /\ active' = active /\ quotes' = quotes
         /\ now' = now
         /\ refresh'[w].pc = "idle"
         /\ refresh'[w].calls = <<>>
         /\ refresh'[w].status = "skipped"]_vars

\* an invocation has returned "skipped" on rows that are some time old but
\* younger than the interval
SkippedOnFreshRows ==
  /\ refresh["task"].pc = "idle" /\ refresh["task"].status = "skipped"
  /\ Stamps # {}
  /\ now > Latest
  /\ now - Latest < EXCHANGE_RATES_REFRESH

\* the bases a worker has called the provider for, in order
CalledBases(w) ==
  [i \in 1..Len(refresh[w].calls) |-> refresh[w].calls[i].base]

\* C14: in a due refresh a fetch that fails (returns None) for one base does
\* not abort the refresh: the loop goes on with the next listed base
\* whatever the position of the failing one, the failed base's call leaves
\* every Rate row as it was, a base whose fetch succeeded has every
\* returned rate upserted, and the bases called and the bases still to do
\* are together the bases listed.
FailedFetchDoesNotAbort ==
  [][\A w \in Workers :
       (refresh[w].pc = "loop" /\ refresh'[w] # refresh[w]) =>
         LET base == Head(refresh[w].todo)
             rest == Tail(refresh[w].todo)
             symbols == refresh[w].codes \ {base}
         IN  /\ CalledBases(w) \o refresh[w].todo
                  = SelectSeq(CodeOrder, LAMBDA c : c \in refresh[w].codes)
             /\ rest = <<>> =>
                  /\ refresh'[w].pc = "idle"
                  /\ refresh'[w].status = "completed"
             /\ rest # <<>> =>
                  /\ refresh'[w].pc = "loop"
                  /\ refresh'[w].todo = rest
                  /\ refresh'[w].codes = refresh[w].codes
                  /\ symbols # {} =>
                       \E got \in {"data", "none"} :
                         /\ refresh'[w].calls = Append(refresh[w].calls,
                                                  Call(base, symbols, got))
                         /\ got = "none" => rates' = rates
                         /\ got = "data" =>
                              \A c \in symbols :
                                /\ Len(rates'[<<base, c>>]) = 1
                                /\ rates'[<<base, c>>][1].last_updated = now]_vars

\* the fetch for the first base failed, the second base's rates are stored,
\* and the third base is still to do
SecondBaseStoredAfterFailure ==
  LET w == "task"
  IN  /\ refresh[w].pc = "loop"
      /\ Len(refresh[w].calls) = 2 /\ Len(refresh[w].todo) = 1
      /\ refresh[w].calls[1].got = "none"
      /\ refresh[w].calls[2].got = "data"
      /\ \A c \in Currencies : rates[<<refresh[w].calls[1].base, c>>] = <<>>
      /\ \A c \in refresh[w].calls[2].symbols :
           HasRate(refresh[w].calls[2].base, c)

\* C15 (as claimed): update_all_exchange_rates never raises past its own
\* boundary, whatever the provider answers and also when no currency is
\* active: no invocation ever ends with an exception.
RefreshNeverRaises ==
  \A w \in Workers : refresh[w].status # "raised"

\* C15, the part that holds: an invocation that finds no active currency
\* returns normally, and a turn of the loop that ends in a normal return or
\* in an exception without a write leaves every Rate row as it was.
FailuresLeaveRatesStale ==
  [][\A w \in Workers :
       /\ (refresh[w].pc = "idle" /\ ActiveList = <<>> /\ RefreshStart(w)) =>
            refresh'[w].status \in {"skipped", "no_active"} /\ rates' = rates
       /\ (refresh[w].pc = "loop" /\ refresh'[w].status = "raised") =>
            rates' = rates]_vars


\* C16 (as stated): a due refresh that runs to completion makes exactly one
\* call of fetch_rates_for_currency per listed active currency, N calls for
\* N currencies for every N >= 1, and each call asks for exactly the other
\* listed currencies.  With a single active currency the loop finds no
\* target and goes on without calling: 0 calls for N = 1
OneCallPerActiveBase ==
  [][\A w \in Workers :
       /\ refresh[w].pc = "loop"
          => \A i \in 1..Len(refresh[w].calls) :
               refresh[w].calls[i].symbols =
                 refresh[w].codes \ {refresh[w].calls[i].base}
       /\ refresh[w].pc = "loop" /\ refresh'[w].status = "completed"
          => refresh'[w].call_count = Cardinality(refresh[w].codes)]_vars

\* C16, what the loop does: one call per listed base when at least two
\* currencies are listed, none when one is
CallsPerListedBase ==
  [][\A w \in Workers :
       refresh[w].pc = "loop" /\ refresh'[w].status = "completed"
         => refresh'[w].call_count =
              IF Cardinality(refresh[w].codes) = 1 THEN 0
              ELSE Cardinality(refresh[w].codes)]_vars

\* the pairs whose Rate row a step creates or overwrites
Written == {p \in Pairs : rates'[p] # rates[p]}

\* C17 (as stated): every Rate row a refresh creates or overwrites has an
\* active source and an active target, whatever the provider answers; a
\* currency counts as active when it is active at the write or was listed
\* as active when the invocation began.  update_rates_for_currency looks the
\* target up by code alone, so a provider that names an inactive currency
\* gets a row written for it
RefreshWritesActiveOnly ==
  [][\A w \in Workers :
       refresh[w].pc = "loop" /\ refresh'[w] # refresh[w]
         => \A p \in Written :
              /\ p[1] \in refresh[w].codes \/ active[p[1]]
              /\ p[2] \in refresh[w].codes \/ active[p[2]]]_vars

\* C17, what the refresh does keep: the source of a written row is a listed
\* base, and an answer that names a code without a Currency row writes
\* nothing and lets the loop go on
RefreshWritesListedSource ==
  [][\A w \in Workers :
       refresh[w].pc = "loop" /\ refresh'[w] # refresh[w]
         => /\ \A p \in Written :
                 p[1] = Head(refresh[w].todo) /\ p[1] \in refresh[w].codes
            /\ Written = {} /\ Len(refresh[w].todo) > 1
                 => refresh'[w].status # "completed"]_vars

\* C18 (as stated): every stored Rate row written by the refresh has
\* buying < mean < selling in its 6-place values, for every number the
\* provider returns.  The spread of a small number is below half a unit of
\* the sixth place and is rounded away: 0.000003 is stored as
\* buying = mean = selling = 0.000003
SpreadKeptInStoredRows ==
  \A r \in RateRows :
    r.row.buying < r.row.mean /\ r.row.mean < r.row.selling

\* C18, what the stored rows of positive provider numbers do satisfy
SpreadNeverInverted ==
  \A r \in RateRows :
    r.row.buying <= r.row.mean /\ r.row.mean <= r.row.selling

\* C19 (as stated): two invocations of update_all_exchange_rates started
\* within one refresh interval never fetch the same base twice (counting
\* only the fetches that returned rates and were upserted).  While the
\* clock is below the interval every invocation began within it; the guard
\* is read once at the start and nothing is locked, so two invocations that
\* both read "no rows" each go through the whole list
EachBaseFetchedOnce ==
  now < EXCHANGE_RATES_REFRESH
    => \A i \in DOMAIN refresh["task"].calls :
         \A j \in DOMAIN refresh["command"].calls :
           LET first == refresh["task"].calls[i]
               second == refresh["command"].calls[j]
           IN  first.got = "data" /\ second.got = "data"
                 => first.base # second.base

\* C19, what the guard does give: an invocation that starts after another
\* one's upsert, within the interval, makes no call
LateStarterSkips ==
  [][\A w \in Workers :
       refresh[w].pc = "idle" /\ refresh'[w].pc = "loop"
         => RateRows = {} \/
            \A r \in RateRows :
              now - r.row.last_updated >= EXCHANGE_RATES_REFRESH]_vars

\* C20 (as stated): after any sequence of refreshes, whatever the provider
\* answers, no Rate row has its source equal to its target.  The base is left
\* out of the symbols requested, but update_rates_for_currency writes a row
\* for every code of the answer, the base included
NoRateToItself ==
  \A r \in RateRows : r.pair[1] # r.pair[2]

\* C21 (as stated): a create request that has passed its form always
\* completes with a created Quote, whatever ran in between: the rate read
\* that follows finds the row, the answer is 201 and the Quote locks the
\* mean stored at that read.  A valid amount of 16 whole digits times a mean
\* of 0.123457 has more digits than Quote.result holds, and a Rate row may
\* be deleted from the admin before the read: either way the view raises
ValidatedCreateCompletes ==
  [][pending.pc = "validated" /\ pending'.pc = "idle"
       => /\ HasRate(pending.source, pending.target)
          /\ resp'.status = 201
          /\ resp'.rate = GetRate(pending.source, pending.target).mean
          /\ resp'.quote_id \in DOMAIN quotes'
          /\ quotes'[resp'.quote_id].rate =
               GetRate(pending.source, pending.target).mean]_vars

\* C21, what the view does give: the second half ends in a Quote that locks
\* the mean of the second read exactly when that read finds the row and the
\* result fits its column, and in a 500 without a Quote otherwise
CreatedUnlessDeletedOrTooLarge ==
  [][pending.pc = "validated" /\ pending'.pc = "idle"
       => IF /\ HasRate(pending.source, pending.target)
             /\ ResultFits(pending.req.amount,
                           GetRate(pending.source, pending.target).mean)
            THEN /\ resp'.status = 201
                 /\ quotes'[resp'.quote_id].rate =
                      GetRate(pending.source, pending.target).mean
            ELSE resp'.status = 500 /\ quotes' = quotes]_vars

\* C21, the refresh alone: no step of update_all_exchange_rates removes a
\* Rate row
RefreshKeepsRows ==
  [][(\E w \in Workers : refresh'[w] # refresh[w])
       => \A p \in Pairs : Len(rates'[p]) >= Len(rates[p])]_vars
====
